---- MODULE Spec2Model ----
(***************************************************************************)
(* Model of custom_components/ics2000/light.py: the retry primitive        *)
(* `repeat`, the thread-name guard KlikAanKlikUitThread.has_running_threads *)
(* and the turn_on / turn_off handlers of KlikAanKlikUitDevice and          *)
(* KlikAanKlikUitZigbeeDevice.                                              *)
(*                                                                         *)
(* Handlers are run by caller threads of the host. A call takes three       *)
(* steps: the entry, the guard (a return when has_running_threads is true)  *)
(* and the rest of the handler up to its return; a caller's pc is the       *)
(* source line it executes next ("L153" is line 153 of light.py). The       *)
(* window between the guard and Thread.start() is thus part of the model.   *)
(*                                                                         *)
(* A started thread runs repeat. One step is one iteration of its loop: the *)
(* call of callable_function, the time.sleep after it and the loop head. A  *)
(* thread is live, and in threading.enumerate(), from start() until it has  *)
(* left repeat by return or by an exception of callable_function.           *)
(***************************************************************************)
EXTENDS Integers, Sequences, FiniteSets, Bags, TLC

(* ------------------------------ bounds -------------------------------- *)
MaxTries == 3
MaxThreads == 3
NumCallers == 2
MaxCalls == 2

(* --------------------------- the environment --------------------------- *)
\* hub.devices: the ids of the non-Zigbee and of the Zigbee lamps
StandardDevices == {1}
ZigbeeDevices == {12}
Devices == StandardDevices \cup ZigbeeDevices

\* values the host passes as ATTR_BRIGHTNESS / ATTR_COLOR_TEMP
BrightnessValues == {0, 51}
ZigbeeBrightnessValues == {100}
ColorTempValues == {250}

\* values of the configuration's sleep (line 70 has the default)
SleepValues == {3}

Callers == 1..NumCallers

\* Python's None; an optional value v is <<v>>
None == <<>>
Some(v) == <<v>>
Val(o) == o[1]
Optional(S) == {None} \cup {Some(v) : v \in S}

VARIABLES tries, sleep, _state, _brightness, _color_temp, threads, callers, ncalls

vars == <<tries, sleep, _state, _brightness, _color_temp, threads, callers, ncalls>>

(* ----------------------------- properties ------------------------------ *)
\* the properties is_on and brightness of both entity classes
is_on(d) == _state[d]
brightness(d) == _brightness[d]

(* ------------------------------- records ------------------------------- *)
\* Every record of the model is built by one of these operators, its fields in
\* the order in which the module first names them.

\* a caller of a handler: the line it is at, the handler, self._id, **kwargs
Caller(pc, method, device, kwargs) ==
    [pc |-> pc, method |-> method, device |-> device, kwargs |-> kwargs]

\* a started thread: where it is in repeat, the kwargs of its target, its
\* name, the action and device_id it was constructed with, the loop index i
\* and what it has called so far
Thread(pc, kwargs, name, action, device_id, i, trace) ==
    [pc |-> pc, kwargs |-> kwargs, name |-> name, action |-> action,
     device_id |-> device_id, i |-> i, trace |-> trace]

\* the kwargs of a thread: those of repeat and those of callable_function
Kwargs(n, s, callable_function, entity, level, color_temp) ==
    [tries |-> n, sleep |-> s, callable_function |-> callable_function,
     entity |-> entity, level |-> level, color_temp |-> color_temp]

\* the arguments callable_function is called with: kwargs without tries, sleep
\* and callable_function (line 31)
CallArgs(kw) == [entity |-> kw.entity, level |-> kw.level, color_temp |-> kw.color_temp]

\* the **kwargs of turn_on: ATTR_BRIGHTNESS and ATTR_COLOR_TEMP
HostKwargs(b, t) == [brightness |-> b, color_temp |-> t]

\* a call of callable_function or of time.sleep
Event(event, args) == [event |-> event, args |-> args]

(* ------------------------ KlikAanKlikUitAction ------------------------- *)
TURN_ON == "on"
TURN_OFF == "off"
DIM == "dim"
CHANGE_TEMEPRATURE == "change_temperature"

(* ------------------------------- repeat -------------------------------- *)
\* range(0, tries)
range(lo, hi) == lo..(hi - 1)

\* repeat with a sleep after the last call too
SleepArgAlways(i, n, s) == s

\* the argument of time.sleep at iteration i (line 32)
SleepArg(i, n, s) == IF i # n - 1 THEN s ELSE 0

\* repeat with a loop of one iteration more
LoopPcOneMore(i, n) == IF i \in 0..n THEN "call" ELSE "return"

\* where the for loop of line 29 goes with loop index i: into its body or off
\* its end
LoopPc(i, n) == IF i \in range(0, n) THEN "call" ELSE "return"

\* threading.enumerate(): the started threads that have not finished
enumerate == BagToSet(threads)

\* thread t becomes u
Becomes(t, u) == threads' = (threads (-) SetToBag({t})) (+) SetToBag({u})

\* lines 31-32 and the loop head of line 29: the call returns, the thread
\* sleeps and takes the next index
Iterate(t) ==
    /\ t \in enumerate
    /\ t.pc = "call"
    /\ LET kw == t.kwargs
       IN Becomes(t, [t EXCEPT !.trace = @ \o <<Event("call", CallArgs(kw)),
                                             Event("sleep", SleepArg(t.i, kw.tries, kw.sleep))>>,
                              !.i = t.i + 1,
                              !.pc = LoopPc(t.i + 1, kw.tries)])
    /\ UNCHANGED <<tries, sleep, _state, _brightness, _color_temp, callers, ncalls>>

\* an exception that takes the optimistic state of the device back
RaiseRollsBack(t) ==
    /\ t \in enumerate
    /\ t.pc = "call"
    /\ Becomes(t, [t EXCEPT !.trace = Append(@, Event("call", CallArgs(t.kwargs))),
                            !.pc = "raise"])
    /\ _state' = [_state EXCEPT ![t.device_id] = None]
    /\ UNCHANGED <<tries, sleep, _brightness, _color_temp, callers, ncalls>>

\* line 31, the call raises: the exception leaves repeat and ends the thread
Raise(t) ==
    /\ t \in enumerate
    /\ t.pc = "call"
    /\ Becomes(t, [t EXCEPT !.trace = Append(@, Event("call", CallArgs(t.kwargs))),
                            !.pc = "raise"])
    /\ UNCHANGED <<tries, sleep, _state, _brightness, _color_temp, callers, ncalls>>

\* a thread whose exception takes the state of its device back to unknown
\* when it ends
FinishForgetsState(t) ==
    /\ t \in enumerate
    /\ t.pc \in {"return", "raise"}
    /\ threads' = threads (-) SetToBag({t})
    /\ _state' = [_state EXCEPT ![t.device_id] = IF t.pc = "raise" THEN None ELSE @]
    /\ UNCHANGED <<tries, sleep, _brightness, _color_temp, callers, ncalls>>

\* a thread that stays in threading.enumerate() after an exception
FinishOnlyReturn(t) ==
    /\ t \in enumerate
    /\ t.pc = "return"
    /\ threads' = threads (-) SetToBag({t})
    /\ UNCHANGED <<tries, sleep, _state, _brightness, _color_temp, callers, ncalls>>

\* a thread that can be stopped before its loop is over
FinishAnyTime(t) ==
    /\ t \in enumerate
    /\ threads' = threads (-) SetToBag({t})
    /\ UNCHANGED <<tries, sleep, _state, _brightness, _color_temp, callers, ncalls>>

\* the thread's run() is over: it leaves threading.enumerate()
Finish(t) ==
    /\ t \in enumerate
    /\ t.pc \in {"return", "raise"}
    /\ threads' = threads (-) SetToBag({t})
    /\ UNCHANGED <<tries, sleep, _state, _brightness, _color_temp, callers, ncalls>>

(* ------------------------ KlikAanKlikUitThread ------------------------- *)
\* a thread name without the device id
ThreadNameOfAction(action, device_id) == "kaku" \o action

\* line 94
ThreadName(action, device_id) == "kaku" \o action \o ToString(device_id)

\* __init__ and the state of the thread when start() returns: repeat is at
\* its loop head with i = 0
KlikAanKlikUitThread(action, device_id, kwargs) ==
    Thread(LoopPc(0, kwargs.tries), kwargs, ThreadName(action, device_id), action, device_id,
           0, <<>>)

\* a guard that does not look for the dim thread
GuardedNamesNoDim(device_id) ==
    {ThreadName(TURN_ON, device_id), ThreadName(TURN_OFF, device_id)}

\* a guard that looks for the change_temperature thread too
GuardedNamesWithTemperature(device_id) ==
    {ThreadName(TURN_ON, device_id), ThreadName(DIM, device_id), ThreadName(TURN_OFF, device_id),
     ThreadName(CHANGE_TEMEPRATURE, device_id)}

\* the names has_running_threads looks for (lines 101-105)
GuardedNames(device_id) ==
    {ThreadName(TURN_ON, device_id), ThreadName(DIM, device_id), ThreadName(TURN_OFF, device_id)}

has_running_threads(device_id) ==
    LET running_threads == {t \in enumerate : t.name \in GuardedNames(device_id)}
    IN running_threads # {}

(* ------------------------------ callers -------------------------------- *)
NoKwargs == HostKwargs(None, None)
Idle == Caller("idle", "none", 0, NoKwargs)

\* kwargs.get(key, default)
get(v, default) == IF v = None THEN default ELSE v

\* math.ceil(x / y) for x >= 0, y > 0
ceil(x, y) == IF x % y = 0 THEN x \div y ELSE (x \div y) + 1

\* a test that takes only an unknown state for off
NotOnNoneOnly(on) == on = None

\* "self.is_on is None or not self.is_on"
NotOn(on) == on = None \/ ~Val(on)

\* the bag of the threads of a sequence
SeqToBag(seq) ==
    [t \in {seq[k] : k \in DOMAIN seq} |-> Cardinality({k \in DOMAIN seq : seq[k] = t})]

\* a caller enters a handler (lines 148-149, 182-183, 237-238, 311-312)
Enter(c, method, firstPc, device, kwargs) ==
    /\ callers[c].pc = "idle"
    /\ ncalls < MaxCalls
    /\ ncalls' = ncalls + 1
    /\ callers' = [callers EXCEPT ![c] = Caller(firstPc, method, device, kwargs)]
    /\ UNCHANGED <<tries, sleep, _state, _brightness, _color_temp, threads>>

\* a guard that marks the device on before it looks for running threads
GuardAfterState(c, pc, nextPc) ==
    /\ callers[c].pc = pc
    /\ callers' = [callers EXCEPT ![c] = IF has_running_threads(callers[c].device)
                                         THEN Idle
                                         ELSE [@ EXCEPT !.pc = nextPc]]
    /\ _state' = [_state EXCEPT ![callers[c].device] = Some(TRUE)]
    /\ UNCHANGED <<tries, sleep, _brightness, _color_temp, threads, ncalls>>

\* a guard that also takes a caller between the guard and start() for a
\* running thread, as a lock would
GuardWithLock(c, pc, nextPc) ==
    /\ callers[c].pc = pc
    /\ callers' = [callers EXCEPT ![c] =
                       IF \/ has_running_threads(callers[c].device)
                          \/ \E o \in Callers \ {c} :
                                 /\ callers[o].device = callers[c].device
                                 /\ callers[o].pc \in {"L153", "L187", "L242", "L316"}
                       THEN Idle
                       ELSE [@ EXCEPT !.pc = nextPc]]
    /\ UNCHANGED <<tries, sleep, _state, _brightness, _color_temp, threads, ncalls>>

\* "if KlikAanKlikUitThread.has_running_threads(self._id): return"
Guard(c, pc, nextPc) ==
    /\ callers[c].pc = pc
    /\ callers' = [callers EXCEPT ![c] = IF has_running_threads(callers[c].device)
                                         THEN Idle
                                         ELSE [@ EXCEPT !.pc = nextPc]]
    /\ UNCHANGED <<tries, sleep, _state, _brightness, _color_temp, threads, ncalls>>

\* every KlikAanKlikUitThread(...).start() of the rest of a handler, in the
\* order of the code, and the handler's return
StartAndReturn(c, started) ==
    /\ BagCardinality(threads) + Len(started) <= MaxThreads
    /\ threads' = threads (+) SeqToBag(started)
    /\ callers' = [callers EXCEPT ![c] = Idle]

(* ------------------------ KlikAanKlikUitDevice ------------------------- *)
turn_on(c, d, b) == Enter(c, "turn_on", "L150", d, HostKwargs(b, None))

turn_on_L150(c) == Guard(c, "L150", "L153")

\* line 177
DimLevel(b) == ceil(b, 17)

\* lines 154-179: the thread turn_on starts, with on and b the values of the
\* properties is_on and brightness it reads
TurnOnThreads(d, n, s, on, b) ==
    IF NotOn(on)
    THEN <<KlikAanKlikUitThread(TURN_ON, d, Kwargs(n, s, "turn_on", d, None, None))>>
    ELSE <<KlikAanKlikUitThread(DIM, d, Kwargs(n, s, "dim", d, Some(DimLevel(Val(b))), None))>>

\* a turn_on that keeps the level it sends to the device as the brightness
turn_on_L153_CachesLevel(c) ==
    /\ callers[c].pc = "L153"
    /\ LET d == callers[c].device
           b == get(callers[c].kwargs.brightness, Some(255))
       IN /\ _brightness' = [_brightness EXCEPT ![d] = IF NotOn(is_on(d)) THEN b ELSE Some(DimLevel(Val(b)))]
          /\ StartAndReturn(c, TurnOnThreads(d, tries, sleep, is_on(d), b))
          /\ _state' = [_state EXCEPT ![d] = Some(TRUE)]
    /\ UNCHANGED <<tries, sleep, _color_temp, ncalls>>

\* lines 153-180 and the return
turn_on_L153(c) ==
    /\ callers[c].pc = "L153"
    /\ LET d == callers[c].device
           b == get(callers[c].kwargs.brightness, Some(255))
       IN /\ _brightness' = [_brightness EXCEPT ![d] = b]
          /\ StartAndReturn(c, TurnOnThreads(d, tries, sleep, is_on(d), b))
          /\ _state' = [_state EXCEPT ![d] = Some(TRUE)]
    /\ UNCHANGED <<tries, sleep, _color_temp, ncalls>>

turn_off(c, d) == Enter(c, "turn_off", "L184", d, NoKwargs)

turn_off_L184(c) == Guard(c, "L184", "L187")

\* lines 187-197
TurnOffThreads(d, n, s) ==
    <<KlikAanKlikUitThread(TURN_OFF, d, Kwargs(n, s, "turn_off", d, None, None))>>

\* a turn_off that leaves _state as it was
turn_off_L187_KeepsState(c) ==
    /\ callers[c].pc = "L187"
    /\ StartAndReturn(c, TurnOffThreads(callers[c].device, tries, sleep))
    /\ UNCHANGED <<tries, sleep, _state, _brightness, _color_temp, ncalls>>

\* lines 187-198 and the return
turn_off_L187(c) ==
    /\ callers[c].pc = "L187"
    /\ LET d == callers[c].device
       IN /\ StartAndReturn(c, TurnOffThreads(d, tries, sleep))
          /\ _state' = [_state EXCEPT ![d] = Some(FALSE)]
    /\ UNCHANGED <<tries, sleep, _brightness, _color_temp, ncalls>>

(* --------------------- KlikAanKlikUitZigbeeDevice ---------------------- *)
zigbee_turn_on(c, d, b, t) == Enter(c, "zigbee_turn_on", "L239", d, HostKwargs(b, t))

zigbee_turn_on_L239(c) == Guard(c, "L239", "L242")

\* lines 245-255
ZigbeeOnThread(d) ==
    <<KlikAanKlikUitThread(TURN_ON, d, Kwargs(1, 1, "zigbee_on", d, None, None))>>

\* a dim-thread with the level scaled as for the standard dimmers
ZigbeeDimThreadScaled(d, b) ==
    IF b # None
    THEN <<KlikAanKlikUitThread(DIM, d, Kwargs(1, 1, "zigbee_dim", d, Some(DimLevel(Val(b))), None))>>
    ELSE <<>>

\* lines 256-268 and 283-295
ZigbeeDimThread(d, b) ==
    IF b # None
    THEN <<KlikAanKlikUitThread(DIM, d, Kwargs(1, 1, "zigbee_dim", d, b, None))>>
    ELSE <<>>

\* lines 269-281 and 296-308
ZigbeeColorTempThread(d, t) ==
    IF t # None
    THEN <<KlikAanKlikUitThread(CHANGE_TEMEPRATURE, d, Kwargs(1, 1, "zigbee_color_temp", d, None, t))>>
    ELSE <<>>

\* a handler that starts the on-thread whatever is_on is
ZigbeeTurnOnThreadsAlwaysOn(d, on, b, t) ==
    ZigbeeOnThread(d) \o ZigbeeDimThread(d, b) \o ZigbeeColorTempThread(d, t)

\* lines 244-308: the threads turn_on starts, with on the value of the
\* property is_on, b of _brightness and t of _color_temp
ZigbeeTurnOnThreads(d, on, b, t) ==
    IF NotOn(on)
    THEN ZigbeeOnThread(d) \o ZigbeeDimThread(d, b) \o ZigbeeColorTempThread(d, t)
    ELSE ZigbeeDimThread(d, b) \o ZigbeeColorTempThread(d, t)

\* lines 242-309 and the return
zigbee_turn_on_L242(c) ==
    /\ callers[c].pc = "L242"
    /\ LET d == callers[c].device
           b == get(callers[c].kwargs.brightness, None)
           t == get(callers[c].kwargs.color_temp, None)
       IN /\ _brightness' = [_brightness EXCEPT ![d] = b]
          /\ _color_temp' = [_color_temp EXCEPT ![d] = t]
          /\ StartAndReturn(c, ZigbeeTurnOnThreads(d, is_on(d), b, t))
          /\ _state' = [_state EXCEPT ![d] = Some(TRUE)]
    /\ UNCHANGED <<tries, sleep, ncalls>>

zigbee_turn_off(c, d) == Enter(c, "zigbee_turn_off", "L313", d, NoKwargs)

zigbee_turn_off_L313(c) == Guard(c, "L313", "L316")

\* lines 316-326
ZigbeeTurnOffThreads(d) ==
    <<KlikAanKlikUitThread(TURN_OFF, d, Kwargs(1, 1, "zigbee_off", d, None, None))>>

\* a turn_off that forgets the brightness and the colour temperature
zigbee_turn_off_L316_ClearsCache(c) ==
    /\ callers[c].pc = "L316"
    /\ LET d == callers[c].device
       IN /\ StartAndReturn(c, ZigbeeTurnOffThreads(d))
          /\ _state' = [_state EXCEPT ![d] = Some(FALSE)]
          /\ _brightness' = [_brightness EXCEPT ![d] = None]
          /\ _color_temp' = [_color_temp EXCEPT ![d] = None]
    /\ UNCHANGED <<tries, sleep, ncalls>>

\* lines 316-327 and the return
zigbee_turn_off_L316(c) ==
    /\ callers[c].pc = "L316"
    /\ LET d == callers[c].device
       IN /\ StartAndReturn(c, ZigbeeTurnOffThreads(d))
          /\ _state' = [_state EXCEPT ![d] = Some(FALSE)]
    /\ UNCHANGED <<tries, sleep, _brightness, _color_temp, ncalls>>

(* --------------------------- specifications ---------------------------- *)
\* setup_platform: tries and sleep come from the configuration; the entities
\* are constructed with _state, _brightness and _color_temp None
Init ==
    /\ tries \in 1..MaxTries
    /\ sleep \in SleepValues
    /\ _state = [d \in Devices |-> None]
    /\ _brightness = [d \in Devices |-> None]
    /\ _color_temp = [d \in ZigbeeDevices |-> None]
    /\ threads = EmptyBag
    /\ callers = [c \in Callers |-> Idle]
    /\ ncalls = 0

Handler(c) ==
    \/ \E d \in StandardDevices, b \in Optional(BrightnessValues) : turn_on(c, d, b)
    \/ turn_on_L150(c)
    \/ turn_on_L153(c)
    \/ \E d \in StandardDevices : turn_off(c, d)
    \/ turn_off_L184(c)
    \/ turn_off_L187(c)
    \/ \E d \in ZigbeeDevices, b \in Optional(ZigbeeBrightnessValues), t \in Optional(ColorTempValues) :
          zigbee_turn_on(c, d, b, t)
    \/ zigbee_turn_on_L239(c)
    \/ zigbee_turn_on_L242(c)
    \/ \E d \in ZigbeeDevices : zigbee_turn_off(c, d)
    \/ zigbee_turn_off_L313(c)
    \/ zigbee_turn_off_L316(c)

Worker(t) ==
    \/ Iterate(t)
    \/ Raise(t)
    \/ Finish(t)

Next ==
    \/ \E c \in Callers : Handler(c)
    \/ \E t \in enumerate : Worker(t)

Spec == Init /\ [][Next]_vars

\* the host calls the handlers one at a time
SeqNext ==
    \/ Handler(1)
    \/ \E t \in enumerate : Worker(t)

SeqSpec == Init /\ [][SeqNext]_vars

\* the scheduler lets every started thread run: repeat's loop takes its next
\* step, and a thread that has left repeat ends
Fairness == WF_vars(\E t \in enumerate : Worker(t))

FairSpec == Spec /\ Fairness

(* ------------------------------- claims -------------------------------- *)
OnDimOff == {TURN_ON, DIM, TURN_OFF}

\* the live threads of device d started for the actions of A
LiveThreads(d, A) == {t \in BagToSet(threads) : t.device_id = d /\ t.action \in A}

\* how many of them there are
LiveCount(d, A) ==
    LET S == LiveThreads(d, A)
    IN BagCardinality([t \in S |-> threads[t]])

\* a thread that has been started and has not yet made a call
Fresh(t) == t.pc = "call" /\ t.trace = <<>>

GuardPcs == {"L150", "L184", "L239", "L313"}
AllIdle == \A c \in Callers : callers[c] = Idle

CallEvents(t) == {k \in DOMAIN t.trace : t.trace[k].event = "call"}
SleepEvents(t) == {k \in DOMAIN t.trace : t.trace[k].event = "sleep"}

RECURSIVE SumOfSleeps(_)
SumOfSleeps(trace) ==
    IF trace = <<>> THEN 0
    ELSE (IF Head(trace).event = "sleep" THEN Head(trace).args ELSE 0) + SumOfSleeps(Tail(trace))

\* C1: in every reachable state every device has at most one live thread
\* whose action is on, dim or off.
C1_AtMostOneOnDimOffThread == \A d \in Devices : LiveCount(d, OnDimOff) <= 1

\* C2: a request whose guard is evaluated while a thread for on, dim or off
\* of its device is live returns from the guard: it does not go on to the
\* lines that start threads, and the step starts no thread.
C2_BusyRequestStartsNoThread ==
    [][\A c \in Callers :
          (/\ callers[c].pc \in GuardPcs
           /\ callers'[c] # callers[c]
           /\ LiveCount(callers[c].device, OnDimOff) > 0)
          => (callers'[c] = Idle /\ threads' = threads)]_vars

C2_Witness ==
    \E c \in Callers :
        /\ callers[c].pc \in GuardPcs
        /\ LiveCount(callers[c].device, {DIM}) > 0
        /\ LiveCount(callers[c].device, {TURN_ON, TURN_OFF}) = 0

\* C3: a request that returns from its guard (a dropped request) leaves
\* _state, _brightness and _color_temp of every device as they were.
C3_DroppedRequestKeepsCache ==
    [][\A c \in Callers :
          (callers[c].pc \in GuardPcs /\ callers'[c] = Idle)
          => UNCHANGED <<_state, _brightness, _color_temp>>]_vars

C3_Witness ==
    \E c \in Callers :
        /\ callers[c].pc = "L184"
        /\ LiveCount(callers[c].device, {TURN_ON}) > 0
        /\ _state[callers[c].device] = Some(TRUE)
        /\ _brightness[callers[c].device] # None

\* C4: a thread running repeat with tries = N >= 1 never makes more than N
\* calls, every call it makes has the arguments of its kwargs, and when it
\* has left the loop without an exception it has made exactly N calls.
C4_RepeatCallsExactlyTries ==
    \A t \in BagToSet(threads) :
        t.kwargs.tries >= 1 =>
            /\ Cardinality(CallEvents(t)) <= t.kwargs.tries
            /\ \A k \in CallEvents(t) : t.trace[k].args = CallArgs(t.kwargs)
            /\ t.pc = "return" => Cardinality(CallEvents(t)) = t.kwargs.tries
            /\ t.pc = "call" => Cardinality(CallEvents(t)) < t.kwargs.tries

C4_Witness ==
    \E t \in BagToSet(threads) :
        /\ t.pc = "return"
        /\ t.kwargs.tries = 3
        /\ Cardinality(CallEvents(t)) = 3

\* C5: in repeat(N, S, ...) every call is followed by one sleep before the
\* next call; the sleep after each of the first N-1 calls is S and the sleep
\* after the N-th call is 0, so a thread that has left the loop has slept
\* (N-1)*S in all, and nothing when N = 1.
C5_SleepBetweenCallsOnly ==
    \A t \in BagToSet(threads) :
        LET N == t.kwargs.tries
            S == t.kwargs.sleep
        IN /\ \A k \in DOMAIN t.trace :
                  IF k % 2 = 1
                  THEN t.trace[k].event = "call"
                  ELSE /\ t.trace[k].event = "sleep"
                       /\ t.trace[k].args = (IF k \div 2 < N THEN S ELSE 0)
           /\ t.pc = "return" =>
                  /\ Len(t.trace) = 2 * N
                  /\ Cardinality({k \in SleepEvents(t) : t.trace[k].args = S}) = N - 1
                  /\ SumOfSleeps(t.trace) = (N - 1) * S

C5_Witness ==
    \E t \in BagToSet(threads) :
        /\ t.pc = "return"
        /\ t.kwargs.tries = 3
        /\ t.kwargs.sleep = 3
        /\ SumOfSleeps(t.trace) = 6
        /\ t.trace[6] = Event("sleep", 0)

\* the threads a step starts, and how many of them call hub operation f
Started == threads' (-) threads
StartedFor(f) ==
    LET S == {t \in BagToSet(Started) : t.kwargs.callable_function = f}
    IN BagCardinality([t \in S |-> Started[t]])

\* C6: the step of an admitted turn_on of a standard device starts exactly one
\* thread for that device: the hub's turn_on (action on, no level) when _state
\* is None or False, the hub's dim (action dim) when _state is True.
C6_StandardTurnOnStartsOneThread ==
    [][\A c \in Callers :
          (callers[c].pc = "L153" /\ callers'[c] = Idle) =>
              LET d == callers[c].device
              IN /\ BagCardinality(Started) = 1
                 /\ BagCardinality(threads') = BagCardinality(threads) + 1
                 /\ \A t \in BagToSet(Started) :
                        /\ t.device_id = d
                        /\ t.kwargs.entity = d
                        /\ IF _state[d] = Some(TRUE)
                           THEN t.action = DIM /\ t.kwargs.callable_function = "dim"
                           ELSE /\ t.action = TURN_ON
                                /\ t.kwargs.callable_function = "turn_on"
                                /\ t.kwargs.level = None]_vars

C6_Witness ==
    \E c \in Callers, d \in StandardDevices :
        /\ callers[c].pc = "L153"
        /\ callers[c].device = d
        /\ callers[c].kwargs.brightness = Some(51)
        /\ _state[d] = Some(FALSE)
        /\ LiveCount(d, OnDimOff) = 0

\* C7: every thread started for the hub's dim carries a level in 1..15.
C7_DimLevelInDeviceRange ==
    \A t \in BagToSet(threads) :
        t.kwargs.callable_function = "dim" =>
            (t.kwargs.level # None /\ Val(t.kwargs.level) \in 1..15)

TurnOnMethods == {"turn_on", "zigbee_turn_on"}
TurnOffMethods == {"turn_off", "zigbee_turn_off"}

C11_TurnOffStartsOneThread ==
    [][\A c \in Callers :
          (callers[c].pc \in {"L187", "L316"} /\ callers'[c] = Idle) =>
              LET d == callers[c].device
              IN /\ BagCardinality(Started) = 1
                 /\ BagCardinality(threads') = BagCardinality(threads) + 1
                 /\ StartedFor(IF d \in ZigbeeDevices THEN "zigbee_off" ELSE "turn_off") = 1
                 /\ \A t \in BagToSet(Started) :
                        /\ t.action = TURN_OFF
                        /\ t.device_id = d
                        /\ t.kwargs.entity = d
                        /\ Fresh(t)
                 /\ _state'[d] = Some(FALSE)
                 /\ \A e \in Devices \ {d} : _state'[e] = _state[e]
                 /\ UNCHANGED <<_brightness, _color_temp>>]_vars

C11_Witness ==
    \E d \in ZigbeeDevices :
        /\ AllIdle
        /\ _state[d] = Some(FALSE)
        /\ _brightness[d] = Some(100)
        /\ _color_temp[d] = Some(250)
        /\ BagCardinality(threads) = 1
        /\ \E t \in LiveThreads(d, {TURN_OFF}) : Fresh(t) /\ t.kwargs.callable_function = "zigbee_off"

\* the threads a step takes out of threading.enumerate() or changes
Removed == threads (-) threads'

\* C12: when the call of iteration i (attempt k = i + 1 of N) raises, the
\* thread has made exactly k calls, k <= N, and is at the end of its run; the
\* step changes no _state, _brightness or _color_temp, no caller and no other
\* thread. The only step a raised thread takes afterwards is the one that ends
\* it, which makes no call and changes nothing else either.
C12_RaiseEndsThread ==
    [][/\ \A u \in BagToSet(Started) : u.pc = "raise" =>
              /\ UNCHANGED <<_state, _brightness, _color_temp, callers>>
              /\ BagCardinality(Started) = 1
              /\ BagCardinality(Removed) = 1
              /\ \A t \in BagToSet(Removed) :
                     /\ t.pc = "call"
                     /\ u = [t EXCEPT !.trace = Append(@, Event("call", CallArgs(t.kwargs))),
                                      !.pc = "raise"]
                     /\ Cardinality(CallEvents(u)) = t.i + 1
                     /\ t.i + 1 <= t.kwargs.tries
       /\ \A t \in BagToSet(Removed) : t.pc = "raise" =>
              /\ UNCHANGED <<_state, _brightness, _color_temp, callers>>
              /\ Started = EmptyBag
              /\ BagCardinality(Removed) = 1
       /\ \A t \in BagToSet(threads) : t.pc = "raise" =>
              /\ Cardinality(CallEvents(t)) = t.i + 1
              /\ t.trace[Len(t.trace)].event = "call"]_vars

C12_Witness ==
    \E t \in BagToSet(threads), u \in BagToSet(threads) :
        /\ t.pc = "raise"
        /\ t.kwargs.tries = 3
        /\ Cardinality(CallEvents(t)) = 2
        /\ _state[t.device_id] = Some(TRUE)
        /\ _brightness[t.device_id] = Some(51)
        /\ u.device_id # t.device_id
        /\ u.pc = "call"

\* thread u is thread t one or more calls later
Later(t, u) ==
    /\ u.kwargs = t.kwargs
    /\ u.name = t.name
    /\ Len(u.trace) > Len(t.trace)
    /\ SubSeq(u.trace, 1, Len(t.trace)) = t.trace

\* C13 as claimed: every thread that ends has made all the calls of its
\* tries.
C13_EveryWorkerMakesAllCalls ==
    [][\A t \in BagToSet(Removed) :
          Started = EmptyBag => Cardinality(CallEvents(t)) = t.kwargs.tries]_vars

\* C13: a started thread leaves threading.enumerate() only at the end of its
\* own run: after the call of its last try, or at the call that raised. No
\* step of a handler and no step of another thread ends it or changes it; the
\* only step that changes a thread inside its loop is its own next call. With
\* a fair scheduler the threads that are live always come to their end.
C13_WorkerRunsUntilReturnOrRaise ==
    /\ [][/\ \A t \in BagToSet(Removed) :
              \/ /\ t.pc = "return"
                 /\ Cardinality(CallEvents(t)) = t.kwargs.tries
                 /\ Started = EmptyBag
              \/ /\ t.pc = "raise"
                 /\ Started = EmptyBag
              \/ /\ t.pc = "call"
                 /\ BagCardinality(Started) = 1
                 /\ \A u \in BagToSet(Started) :
                        Later(t, u) /\ Cardinality(CallEvents(u)) = Cardinality(CallEvents(t)) + 1
          /\ Removed # EmptyBag => (callers' = callers /\ BagCardinality(Removed) = 1)]_vars
    /\ (threads # EmptyBag) ~> (threads = EmptyBag)

C13_Witness ==
    \E t \in BagToSet(threads), u \in BagToSet(threads) :
        /\ t.pc = "return"
        /\ t.kwargs.tries = 3
        /\ Cardinality(CallEvents(t)) = 3
        /\ ncalls = 2
        /\ AllIdle
        /\ u.device_id # t.device_id
        /\ Fresh(u)

\* the lines after the guards
BodyPcs == {"L153", "L187", "L242", "L316"}

\* C14: the guard looks at the started threads only. A caller whose device has
\* no live thread for on, dim or off passes the guard also while another
\* caller for the same device is between its guard and its start(), and a
\* caller past the guard starts its thread also when a thread for on, dim or
\* off of its device has been started meanwhile. (The state with two such
\* threads for one standard device is C14_Witness.)
C14_GuardIsCheckThenStart ==
    [][\A c \in Callers :
          /\ (/\ callers[c].pc \in GuardPcs
              /\ callers'[c] # callers[c]
              /\ LiveCount(callers[c].device, OnDimOff) = 0)
             => (callers'[c].pc \in BodyPcs /\ callers'[c].device = callers[c].device)
          /\ (callers[c].pc \in {"L153", "L187", "L316"} /\ callers'[c] # callers[c])
             => /\ BagCardinality(Started) = 1
                /\ BagCardinality(threads') = BagCardinality(threads) + 1
                /\ \A t \in BagToSet(Started) :
                       t.device_id = callers[c].device /\ t.action \in OnDimOff]_vars

C14_Witness ==
    \E d \in StandardDevices :
        /\ AllIdle
        /\ ncalls = 2
        /\ LiveCount(d, OnDimOff) = 2
        /\ \A t \in LiveThreads(d, OnDimOff) : Fresh(t)

\* C15: a live thread for change_temperature does not make has_running_threads
\* true. A turn_on or turn_off of a Zigbee device whose only live threads are
\* for change_temperature passes its guard, and the step after the guard
\* starts the threads of the handler next to them: the off-thread for
\* turn_off; for turn_on the on-thread unless _state is True, a dim-thread if
\* brightness was passed and a further change_temperature thread if color_temp
\* was passed.
C15_TemperatureThreadIsNotBusy ==
    [][\A c \in Callers :
          LET d == callers[c].device
              kw == callers[c].kwargs
          IN (/\ callers[c].pc # "idle"
              /\ callers'[c] # callers[c]
              /\ LiveCount(d, {CHANGE_TEMEPRATURE}) > 0
              /\ LiveCount(d, OnDimOff) = 0) =>
                 /\ ~has_running_threads(d)
                 /\ callers[c].pc = "L239" => callers'[c] = [callers[c] EXCEPT !.pc = "L242"]
                 /\ callers[c].pc = "L313" => callers'[c] = [callers[c] EXCEPT !.pc = "L316"]
                 /\ callers[c].pc = "L316" =>
                        StartedFor("zigbee_off") = 1 /\ BagCardinality(Started) = 1
                 /\ callers[c].pc = "L242" =>
                        /\ StartedFor("zigbee_on") = (IF _state[d] = Some(TRUE) THEN 0 ELSE 1)
                        /\ StartedFor("zigbee_dim") = (IF kw.brightness # None THEN 1 ELSE 0)
                        /\ StartedFor("zigbee_color_temp") = (IF kw.color_temp # None THEN 1 ELSE 0)
                 /\ \A t \in LiveThreads(d, {CHANGE_TEMEPRATURE}) :
                        CopiesIn(t, threads') >= CopiesIn(t, threads)]_vars

C15_Witness ==
    \E c \in Callers, d \in ZigbeeDevices :
        /\ callers[c].pc = "L239"
        /\ callers[c].device = d
        /\ callers[c].kwargs.color_temp = Some(250)
        /\ \A o \in Callers \ {c} : callers[o] = Idle
        /\ LiveCount(d, {CHANGE_TEMEPRATURE}) = 1
        /\ LiveCount(d, OnDimOff) = 0

C17_DeviceBecomesFreeAgain ==
    /\ \A d \in Devices : has_running_threads(d) ~> ~has_running_threads(d)
    /\ \A d \in Devices : []<>(LiveCount(d, OnDimOff) = 0)
    /\ [][\A c \in Callers :
              (/\ callers[c].pc \in GuardPcs
               /\ callers'[c] # callers[c]
               /\ ~has_running_threads(callers[c].device))
              => /\ callers'[c].pc \in BodyPcs
                 /\ callers'[c].method = callers[c].method
                 /\ callers'[c].device = callers[c].device]_vars

C17_Witness ==
    \E c \in Callers, d \in StandardDevices :
        /\ callers[c].pc = "L184"
        /\ callers[c].device = d
        /\ \A o \in Callers \ {c} : callers[o] = Idle
        /\ ncalls = 2
        /\ _state[d] = Some(TRUE)
        /\ tries = 3
        /\ threads = EmptyBag

\* C18: a turn_on or turn_off of device d returns from its guard only when a
\* thread for on, dim or off of d itself is live, whatever threads of other
\* devices are live; and no step of a call for d changes _state, _brightness
\* or _color_temp of another device or the live threads of another device.
C18_AdmissionIsPerDevice ==
    [][\A c \in Callers :
          callers'[c] # callers[c] =>
              LET d == IF callers[c].pc = "idle" THEN callers'[c].device ELSE callers[c].device
              IN /\ (callers[c].pc \in GuardPcs /\ callers'[c] = Idle)
                    => LiveCount(d, OnDimOff) > 0
                 /\ (callers[c].pc \in GuardPcs /\ LiveCount(d, OnDimOff) = 0)
                    => callers'[c].pc \in BodyPcs
                 /\ \A e \in Devices \ {d} :
                        /\ _state'[e] = _state[e]
                        /\ _brightness'[e] = _brightness[e]
                        /\ e \in ZigbeeDevices => _color_temp'[e] = _color_temp[e]
                 /\ \A t \in BagToSet(threads) \cup BagToSet(threads') :
                        t.device_id # d => CopiesIn(t, threads') = CopiesIn(t, threads)]_vars

C18_Witness ==
    \E c \in Callers :
        /\ callers[c].pc = "L150"
        /\ callers[c].device = 1
        /\ LiveCount(1, OnDimOff \cup {CHANGE_TEMEPRATURE}) = 0
        /\ LiveCount(12, {TURN_ON}) = 1
        /\ LiveCount(12, {DIM}) = 1
        /\ LiveCount(12, {CHANGE_TEMEPRATURE}) = 1

\* C19: _state of every device is None after construction. A step changes
\* _state of a device only when it is the step after the guard of a turn_on
\* or turn_off of that device, and that step always leaves True (turn_on) or
\* False (turn_off): a call that returns from its guard, a step of a thread
\* and a call for another device leave _state as it was, and a _state that is
\* True or False never becomes None again.
C19_StateUnknownUntilAdmitted ==
    /\ \A d \in Devices : _state[d] = None
    /\ [][\A d \in Devices :
              LET Admitted == {c \in Callers : /\ callers[c].pc \in BodyPcs
                                               /\ callers[c].device = d
                                               /\ callers'[c] = Idle}
              IN /\ _state'[d] # _state[d] => Admitted # {}
                 /\ \A c \in Admitted :
                        _state'[d] = Some(callers[c].method \in TurnOnMethods)
                 /\ Admitted = {} => _state'[d] = _state[d]
                 /\ _state[d] # None => _state'[d] \in {Some(TRUE), Some(FALSE)}]_vars

C19_Witness ==
    /\ AllIdle
    /\ ncalls = 2
    /\ _state[1] = Some(FALSE)
    /\ _state[12] = None
    /\ \E t \in LiveThreads(1, {TURN_OFF}) : t.pc = "raise"

====
